---------------------------- MODULE Spec2Model ----------------------------
(***************************************************************************)
(* Request-defense layer of the contact endpoint: the per-client request   *)
(* throttle (src/src/lib/rate-limit.ts) and the anti-forgery token manager *)
(* (src/src/lib/csrf.ts), and the handlers of the contact endpoint that    *)
(* use them (src/src/app/api/contact/route.ts) with the schema validation  *)
(* and the security utilities they call.                                   *)
(*                                                                         *)
(* Time is the value of Date.now(), counted in clock ticks.  The window    *)
(* length and the token lifetime are expressed in the same ticks, so the   *)
(* comparisons of the code (now > resetTime, now > expiresAt,              *)
(* lastSeen < now - 2 * window) are the comparisons of the model.          *)
(***************************************************************************)
EXTENDS Integers, Sequences, FiniteSets, TLC

\* ------------------------------------------------------------------ bounds
\* Date.now() ranges over 0 .. MaxTime.
MaxTime == 5
\* Longest secret a caller of validateCSRFToken supplies.
MaxSuppliedLen == 3

\* ------------------------------------------------------- program constants
\* contactFormLimiter: window (60 * 1000 ms in the source, 2 ticks here).
Window == 2
\* contactFormLimiter: maxRequests.
MaxRequests == 3
\* TOKEN_TTL (60 * 60 * 1000 ms in the source, 2 ticks here).
TOKEN_TTL == 2
\* MAX_STORED_TOKENS (100 in the source; 1 here, one less than the number of
\* session keys, so that the store can grow beyond it).
MAX_STORED_TOKENS == 1
\* Length of an issued secret: randomBytes(32).toString('hex') has 64
\* characters in the source, TokenLen characters here.
TokenLen == 2

\* Client identifiers handed to check(); "unknown" is the handler's fallback.
Identifiers == {"unknown", "ip1"}
\* Session keys; "default" is the default argument of the token functions.
SessionIds == {"default", "s1"}
\* Characters of a secret (two of the sixteen hex digits).
HexChars == {"0", "f"}

VARIABLES
    now,           \* Date.now()
    store,         \* RateLimiter.store: Map<string, RateLimitEntry>
    lastCheck,     \* <<>> or <<r>>: the most recent check() call and its result
    hist,          \* history: per identifier, the calls of its current window
    recent,        \* history: per identifier, the allowed check() calls of
                   \* each of the last Window + 1 instants
    tokenStore,    \* csrf.ts tokenStore: Map<string, StoredToken>
    issuedEver,    \* history: every secret randomBytes has produced so far
    lastIssued,    \* history: per session key, the secret last returned
    superseded,    \* history: per session key, secrets issued and overwritten
    valsSince,     \* history: per session key, validations since last issuance
    spent,         \* history: the session keys whose secret a POST has
                   \* presented since it was issued
    lastValidate,  \* <<>> or <<r>>: the most recent validateCSRFToken() call:
                   \* its arguments, its result, the stored token it found
                   \* (before), whether it came after that token's expiresAt
                   \* (late), and the history of its session key at the call
    nodeEnv,       \* process.env.NODE_ENV
    lastGet,       \* <<>> or <<r>>: the most recent GET /api/contact response
    lastPost,      \* <<>> or <<r>>: the most recent POST /api/contact: the
                   \* inputs it read, what it called and its response
    handlers,      \* the POST handlers that run concurrently: where each
                   \* stands and what it has done
    passed,        \* history: per secret, the validations that returned true
    arg,           \* <<>> or <<x>>: the argument of a call of a pure function
    result,        \* <<>> or <<y>>: what the call returned
    lastIndex      \* DANGEROUS_PATTERNS[p].lastIndex of each pattern object

throttleVars == <<store, lastCheck, hist, recent>>
tokenVars == <<tokenStore, issuedEver, lastIssued, superseded, valsSince, lastValidate,
              spent>>
routeVars == <<nodeEnv, lastGet, lastPost>>
concVars == <<handlers, passed>>
pureVars == <<arg, result, lastIndex>>
vars == <<now, store, lastCheck, hist, tokenStore, issuedEver, lastIssued,
          superseded, valsSince, lastValidate, nodeEnv, lastGet, lastPost,
          handlers, passed, arg, result, recent, spent, lastIndex>>

\* ----------------------------------------------------------------- helpers
Min(a, b) == IF a < b THEN a ELSE b

\* Map.set(k, v)
MapSet(m, k, v) == [x \in DOMAIN m \cup {k} |-> IF x = k THEN v ELSE m[x]]

\* Map.delete(k)
MapDelete(m, k) == [x \in DOMAIN m \ {k} |-> m[x]]

\* Map.get(k) as an option: <<>> when absent, <<value>> when present.
MapGet(m, k) == IF k \in DOMAIN m THEN <<m[k]>> ELSE <<>>

\* ================================================================= strings
\* A string is the sequence of its characters.

LowerCase ==
    {"a", "b", "c", "d", "e", "f", "g", "h", "i", "j", "k", "l", "m",
     "n", "o", "p", "q", "r", "s", "t", "u", "v", "w", "x", "y", "z"}

UpperCase ==
    {"A", "B", "C", "D", "E", "F", "G", "H", "I", "J", "K", "L", "M",
     "N", "O", "P", "Q", "R", "S", "T", "U", "V", "W", "X", "Y", "Z"}

Digits == {"0", "1", "2", "3", "4", "5", "6", "7", "8", "9"}

\* [a-zA-Z]
Letters == LowerCase \cup UpperCase

\* \s of a JavaScript regular expression, and the characters trim() strips
\* (the ones that the inputs of the model use).
Whitespace == {" ", "\t", "\n", "\r", "\f", "VT"}

\* String.prototype.trim()
RECURSIVE TrimLeft(_)
TrimLeft(s) ==
    IF s # <<>> /\ s[1] \in Whitespace THEN TrimLeft(Tail(s)) ELSE s

RECURSIVE TrimRight(_)
TrimRight(s) ==
    IF s # <<>> /\ s[Len(s)] \in Whitespace
    THEN TrimRight(SubSeq(s, 1, Len(s) - 1)) ELSE s

Trim(s) == TrimRight(TrimLeft(s))

\* String.prototype.toLowerCase(), character by character
LowerOf(c) ==
    IF c \in UpperCase
    THEN CHOOSE l \in LowerCase :
            \E i \in 1 .. 26 :
                /\ <<"A", "B", "C", "D", "E", "F", "G", "H", "I", "J", "K", "L",
                     "M", "N", "O", "P", "Q", "R", "S", "T", "U", "V", "W", "X",
                     "Y", "Z">>[i] = c
                /\ <<"a", "b", "c", "d", "e", "f", "g", "h", "i", "j", "k", "l",
                     "m", "n", "o", "p", "q", "r", "s", "t", "u", "v", "w", "x",
                     "y", "z">>[i] = l
    ELSE c

ToLowerCase(s) == [i \in 1 .. Len(s) |-> LowerOf(s[i])]

\* s.includes(sub), sub at position i
HasAt(s, sub, i) ==
    /\ i >= 1
    /\ i + Len(sub) - 1 <= Len(s)
    /\ \A j \in 1 .. Len(sub) : s[i + j - 1] = sub[j]

Includes(s, sub) == \E i \in 1 .. Len(s) + 1 : HasAt(s, sub, i)

\* ====================================================== security utilities

\* MAX_REQUEST_SIZE = 10 * 1024
MAX_REQUEST_SIZE == 10240

\* [\x00-\x08\x0B\x0C\x0E-\x1F\x7F]: the control characters sanitizeInput
\* removes; "NUL", "BEL", "VT", "ESC" and "DEL" stand for the characters
\* \x00, \x07, \x0B, \x1B and \x7F.
ControlChars == {"NUL", "BEL", "VT", "\f", "ESC", "DEL"}

\* \w
WordChars == Letters \cup Digits \cup {"_"}

\* [\da-f] under the i flag
HexDigits == Digits \cup {"a", "b", "c", "d", "e", "f", "A", "B", "C", "D", "E", "F"}

\* The literals of the patterns and of the entity encoding.
JAVASCRIPT == <<"j", "a", "v", "a", "s", "c", "r", "i", "p", "t">>
DATA_TEXT_HTML == <<"d", "a", "t", "a", ":", "t", "e", "x", "t", "/", "h", "t", "m", "l">>
VBSCRIPT == <<"v", "b", "s", "c", "r", "i", "p", "t">>
SCRIPT == <<"s", "c", "r", "i", "p", "t">>
IFRAME == <<"i", "f", "r", "a", "m", "e">>
OBJECT == <<"o", "b", "j", "e", "c", "t">>
EMBED == <<"e", "m", "b", "e", "d">>
FORM == <<"f", "o", "r", "m">>
INPUT == <<"i", "n", "p", "u", "t">>
BUTTON == <<"b", "u", "t", "t", "o", "n">>
EXPRESSION == <<"e", "x", "p", "r", "e", "s", "s", "i", "o", "n">>
AT_IMPORT == <<"@", "i", "m", "p", "o", "r", "t">>
AMP == <<"&", "a", "m", "p", ";">>
LT == <<"&", "l", "t", ";">>
GT == <<"&", "g", "t", ";">>
QUOT == <<"&", "q", "u", "o", "t", ";">>
APOS == <<"&", "#", "x", "2", "7", ";">>
SLASH == <<"&", "#", "x", "2", "F", ";">>

\* A literal of a pattern with the i flag, at position i of s.
HasAtCI(s, lit, i) ==
    /\ i >= 1
    /\ i + Len(lit) - 1 <= Len(s)
    /\ \A j \in 1 .. Len(lit) : LowerOf(s[i + j - 1]) = lit[j]

\* The first position >= i where the literal occurs, 0 when there is none.
FirstAtCI(s, lit, i) ==
    LET found == {j \in i .. Len(s) : HasAtCI(s, lit, j)} IN
    IF found = {} THEN 0 ELSE CHOOSE j \in found : \A k \in found : j <= k

\* Length of the longest run of characters of class starting at position i.
RECURSIVE RunLen(_, _, _)
RunLen(s, i, class) ==
    IF i <= Len(s) /\ s[i] \in class THEN 1 + RunLen(s, i + 1, class) ELSE 0

\* Length of the match of a literal at position i, 0 when it does not match.
LiteralLen(s, i, lit) == IF HasAtCI(s, lit, i) THEN Len(lit) ELSE 0

\* Length of the match of /<tag[^>]*>/ at position i.
OpenTagLen(s, i, open) ==
    IF ~HasAtCI(s, open, i) THEN 0
    ELSE LET gt == FirstAtCI(s, <<">">>, i + Len(open)) IN
         IF gt = 0 THEN 0 ELSE gt + 1 - i

\* Length of the match of /<tag[^>]*>.*?<\/tag>/s at position i.
TagPairLen(s, i, open, close) ==
    LET n == OpenTagLen(s, i, open) IN
    IF n = 0 THEN 0
    ELSE LET c == FirstAtCI(s, close, i + n) IN
         IF c = 0 THEN 0 ELSE c + Len(close) - i

\* Length of the match of /on\w+\s*=/ at position i.
EventHandlerLen(s, i) ==
    IF ~HasAtCI(s, <<"o", "n">>, i) THEN 0
    ELSE LET w == RunLen(s, i + 2, WordChars)
             sp == RunLen(s, i + 2 + w, Whitespace)
         IN IF w >= 1 /\ HasAtCI(s, <<"=">>, i + 2 + w + sp)
            THEN 2 + w + sp + 1 ELSE 0

\* Length of the match of /expression\s*\(/ at position i.
ExpressionLen(s, i) ==
    IF ~HasAtCI(s, EXPRESSION, i) THEN 0
    ELSE LET sp == RunLen(s, i + 10, Whitespace) IN
         IF HasAtCI(s, <<"(">>, i + 10 + sp) THEN 10 + sp + 1 ELSE 0

\* Length of the match of /&#x[\da-f]+;/ (hex TRUE) or /&#\d+;/ at position i.
EntityLen(s, i, hex) ==
    LET prefix == IF hex THEN <<"&", "#", "x">> ELSE <<"&", "#">>
        class == IF hex THEN HexDigits ELSE Digits
    IN IF ~HasAtCI(s, prefix, i) THEN 0
       ELSE LET d == RunLen(s, i + Len(prefix), class) IN
            IF d >= 1 /\ HasAtCI(s, <<";">>, i + Len(prefix) + d)
            THEN Len(prefix) + d + 1 ELSE 0

\* Length of the match of /from\s*\(\s*['"]\s*javascript/ at position i.
FromJavascriptLen(s, i) ==
    IF ~HasAtCI(s, <<"f", "r", "o", "m">>, i) THEN 0
    ELSE LET a == RunLen(s, i + 4, Whitespace)
             p == i + 4 + a
             b == RunLen(s, p + 1, Whitespace)
             q == p + 1 + b
             c == RunLen(s, q + 1, Whitespace)
         IN IF /\ HasAtCI(s, <<"(">>, p)
               /\ q <= Len(s)
               /\ s[q] \in {"'", "\""}
               /\ HasAtCI(s, JAVASCRIPT, q + 1 + c)
            THEN (q + 1 + c + 10) - i ELSE 0

\* DANGEROUS_PATTERNS[p]: the length of the pattern's match at position i of
\* s, 0 when it does not match there.
NumPatterns == 16

PatternLen(p, s, i) ==
    CASE p = 1 -> LiteralLen(s, i, JAVASCRIPT \o <<":">>)
      [] p = 2 -> LiteralLen(s, i, DATA_TEXT_HTML)
      [] p = 3 -> LiteralLen(s, i, VBSCRIPT \o <<":">>)
      [] p = 4 -> EventHandlerLen(s, i)
      [] p = 5 -> TagPairLen(s, i, <<"<">> \o SCRIPT, <<"<", "/">> \o SCRIPT \o <<">">>)
      [] p = 6 -> TagPairLen(s, i, <<"<">> \o IFRAME, <<"<", "/">> \o IFRAME \o <<">">>)
      [] p = 7 -> TagPairLen(s, i, <<"<">> \o OBJECT, <<"<", "/">> \o OBJECT \o <<">">>)
      [] p = 8 -> TagPairLen(s, i, <<"<">> \o EMBED, <<"<", "/">> \o EMBED \o <<">">>)
      [] p = 9 -> TagPairLen(s, i, <<"<">> \o FORM, <<"<", "/">> \o FORM \o <<">">>)
      [] p = 10 -> OpenTagLen(s, i, <<"<">> \o INPUT)
      [] p = 11 -> TagPairLen(s, i, <<"<">> \o BUTTON, <<"<", "/">> \o BUTTON \o <<">">>)
      [] p = 12 -> ExpressionLen(s, i)
      [] p = 13 -> LiteralLen(s, i, AT_IMPORT)
      [] p = 14 -> EntityLen(s, i, TRUE)
      [] p = 15 -> EntityLen(s, i, FALSE)
      [] p = 16 -> FromJavascriptLen(s, i)

\* The least member of a non-empty set of positions.
Least(positions) == CHOOSE j \in positions : \A k \in positions : j <= k

\* s.replace(DANGEROUS_PATTERNS[p], ''), from position i on: every match,
\* found from left to right, is removed.
RECURSIVE RemovePatternFrom(_, _, _)
RemovePatternFrom(p, s, i) ==
    LET found == {j \in i .. Len(s) : PatternLen(p, s, j) > 0} IN
    IF found = {} THEN SubSeq(s, i, Len(s))
    ELSE LET j == Least(found) IN
         SubSeq(s, i, j - 1) \o RemovePatternFrom(p, s, j + PatternLen(p, s, j))

\* DANGEROUS_PATTERNS.forEach(pattern => sanitized = sanitized.replace(pattern, ''))
\* for the patterns p .. NumPatterns, in the order of the catalogue.
RECURSIVE RemovePatterns(_, _)
RemovePatterns(p, s) ==
    IF p > NumPatterns THEN s
    ELSE RemovePatterns(p + 1, RemovePatternFrom(p, s, 1))

\* containsDangerousPatterns(input), for a pattern object whose lastIndex is 0
ContainsDangerousPatterns(s) ==
    \E p \in 1 .. NumPatterns : \E i \in 1 .. Len(s) : PatternLen(p, s, i) > 0

\* The lastIndex of the pattern objects when the module is loaded, and after
\* String.prototype.replace has run with each of them: 0.
NoLastIndex == [p \in 1 .. NumPatterns |-> 0]

\* DANGEROUS_PATTERNS.some(pattern => pattern.test(input)) for the patterns
\* p .. NumPatterns, the pattern objects holding the lastIndex values li.
\* test searches from lastIndex on: a match leaves lastIndex at its end and
\* ends the iteration, a failure leaves lastIndex at 0.
RECURSIVE SomeTest(_, _, _)
SomeTest(p, s, li) ==
    IF p > NumPatterns THEN [value |-> FALSE, lastIndex |-> li]
    ELSE LET found == {j \in li[p] + 1 .. Len(s) : PatternLen(p, s, j) > 0} IN
         IF found # {}
         THEN [value |-> TRUE,
               lastIndex |-> [li EXCEPT ![p] = Least(found) - 1
                                                 + PatternLen(p, s, Least(found))]]
         ELSE SomeTest(p + 1, s, [li EXCEPT ![p] = 0])

\* containsDangerousPatterns(input), the pattern objects holding li: the
\* value returned and the lastIndex values left.
containsDangerousPatterns(input, li) == SomeTest(1, input, li)

\* s.replace(/c/g, repl) for a single character c
RECURSIVE ReplaceChar(_, _, _)
ReplaceChar(s, c, repl) ==
    LET found == {j \in 1 .. Len(s) : s[j] = c} IN
    IF found = {} THEN s
    ELSE LET j == Least(found) IN
         SubSeq(s, 1, j - 1) \o repl \o ReplaceChar(SubSeq(s, j + 1, Len(s)), c, repl)

\* sanitized.replace(/[\x00-\x08\x0B\x0C\x0E-\x1F\x7F]/g, '')
StripControl(s) == SelectSeq(s, LAMBDA c : c \notin ControlChars)

\* An entity encoding that leaves '<' and '>' as they are.
EntityEncodeNoAngles(s) ==
    LET s1 == ReplaceChar(s, "&", AMP)
        s4 == ReplaceChar(s1, "\"", QUOT)
        s5 == ReplaceChar(s4, "'", APOS)
    IN ReplaceChar(s5, "/", SLASH)

\* .replace(/&/g, '&amp;') ... .replace(/\//g, '&#x2F;'), in this order
EntityEncode(s) ==
    LET s1 == ReplaceChar(s, "&", AMP)
        s2 == ReplaceChar(s1, "<", LT)
        s3 == ReplaceChar(s2, ">", GT)
        s4 == ReplaceChar(s3, "\"", QUOT)
        s5 == ReplaceChar(s4, "'", APOS)
    IN ReplaceChar(s5, "/", SLASH)

\* sanitized.replace(/<[^>]*>/g, '')
RECURSIVE StripTagsFrom(_, _)
StripTagsFrom(s, i) ==
    LET found == {j \in i .. Len(s) : OpenTagLen(s, j, <<"<">>) > 0} IN
    IF found = {} THEN SubSeq(s, i, Len(s))
    ELSE LET j == Least(found) IN
         SubSeq(s, i, j - 1) \o StripTagsFrom(s, j + OpenTagLen(s, j, <<"<">>))

\* the hard ceiling of sanitizeInput: substring(0, 2000)
SANITIZE_MAX_LENGTH == 2000

\* sanitized.substring(0, n)
Substring0(s, n) == SubSeq(s, 1, Min(n, Len(s)))

\* sanitizeInput(input) for a string input; the empty string is falsy and is
\* returned as ''.
sanitizeInput(input) ==
    IF input = <<>> THEN <<>>
    ELSE Substring0(Trim(StripTagsFrom(EntityEncode(RemovePatterns(1,
             StripControl(input))), 1)), SANITIZE_MAX_LENGTH)

\* ============================================================ validations

\* The length limits of contactFormSchema.
NAME_MIN == 2
NAME_MAX == 100
EMAIL_MIN == 5
EMAIL_MAX == 255
MESSAGE_MIN == 10
MESSAGE_MAX == 1000

\* /^[a-zA-Z\s'-]+$/
NameRegex(s) ==
    /\ s # <<>>
    /\ \A i \in 1 .. Len(s) : s[i] \in Letters \cup Whitespace \cup {"'", "-"}

\* /^[a-zA-Z0-9\s!?.,'"()]*$/
MessageRegex(s) ==
    \A i \in 1 .. Len(s) :
        s[i] \in Letters \cup Digits \cup Whitespace
                 \cup {"!", "?", ".", ",", "'", "\"", "(", ")"}

\* The domain part of zod's email pattern: ([A-Z0-9][A-Z0-9\-]*\.)+[A-Z]{2,}
IsEmailDomain(d) ==
    LET dots == {i \in 1 .. Len(d) : d[i] = "."} IN
    /\ dots # {}
    /\ LET last == CHOOSE i \in dots : \A j \in dots : j <= i IN
       /\ d[1] \in Letters \cup Digits
       /\ \A i \in 1 .. last : d[i] \in Letters \cup Digits \cup {"-", "."}
       /\ \A i \in dots : i < last => d[i + 1] \in Letters \cup Digits
       /\ Len(d) - last >= 2
       /\ \A i \in last + 1 .. Len(d) : d[i] \in Letters

\* z.string().email(): zod's pattern
\* /^(?!\.)(?!.*\.\.)([A-Z0-9_'+\-\.]*)[A-Z0-9_+-]@([A-Z0-9][A-Z0-9\-]*\.)+[A-Z]{2,}$/i
IsEmail(s) ==
    LET ats == {i \in 1 .. Len(s) : s[i] = "@"} IN
    /\ Cardinality(ats) = 1
    /\ LET at == CHOOSE i \in ats : TRUE IN
       /\ at > 1
       /\ s[1] # "."
       /\ ~Includes(s, <<".", ".">>)
       /\ \A i \in 1 .. at - 1 :
              s[i] \in Letters \cup Digits \cup {"_", "'", "+", "-", "."}
       /\ s[at - 1] \in Letters \cup Digits \cup {"_", "+", "-"}
       /\ at < Len(s)
       /\ IsEmailDomain(SubSeq(s, at + 1, Len(s)))

Issue(field, message) == [field |-> field, message |-> message]

\* The issues of the name field, in the order of its checks; v is <<>> for a
\* missing value and <<string>> otherwise. min and max see the value as sent,
\* the pattern sees it trimmed.
NameIssues(v) ==
    IF v = <<>> THEN <<Issue("name", "Name is required")>>
    ELSE (IF Len(v[1]) < NAME_MIN
          THEN <<Issue("name", "Name must be at least 2 characters")>>
          ELSE <<>>)
      \o (IF Len(v[1]) > NAME_MAX
          THEN <<Issue("name", "Name must be less than 100 characters")>>
          ELSE <<>>)
      \o (IF ~NameRegex(Trim(v[1]))
          THEN <<Issue("name", "Name can only contain letters, spaces, hyphens, and apostrophes")>>
          ELSE <<>>)

\* The issues of the email field; every check sees the value as sent.
EmailIssues(v) ==
    IF v = <<>> THEN <<Issue("email", "Email is required")>>
    ELSE (IF ~IsEmail(v[1])
          THEN <<Issue("email", "Invalid email address")>>
          ELSE <<>>)
      \o (IF Len(v[1]) < EMAIL_MIN
          THEN <<Issue("email", "Email must be at least 5 characters")>>
          ELSE <<>>)
      \o (IF Len(v[1]) > EMAIL_MAX
          THEN <<Issue("email", "Email must be less than 255 characters")>>
          ELSE <<>>)

\* The issues of the message field.
MessageIssues(v) ==
    IF v = <<>> THEN <<Issue("message", "Message is required")>>
    ELSE (IF Len(v[1]) < MESSAGE_MIN
          THEN <<Issue("message", "Message must be at least 10 characters")>>
          ELSE <<>>)
      \o (IF Len(v[1]) > MESSAGE_MAX
          THEN <<Issue("message", "Message must be less than 1000 characters")>>
          ELSE <<>>)
      \o (IF ~MessageRegex(Trim(v[1]))
          THEN <<Issue("message", "Message contains invalid characters")>>
          ELSE <<>>)

\* safeParse reporting the first issue only.
safeParseAbortEarly(name, email, message) ==
    LET errors == NameIssues(name) \o EmailIssues(email) \o MessageIssues(message) IN
    IF errors # <<>>
    THEN [success |-> FALSE, errors |-> <<errors[1]>>]
    ELSE [success |-> TRUE,
          data |-> [name |-> Trim(name[1]),
                    email |-> Trim(ToLowerCase(email[1])),
                    message |-> Trim(message[1])]]

\* contactFormSchema.safeParse({ name, email, message }): the issues of the
\* three fields in the order of the schema's keys, and on success the
\* transformed values.
safeParse(name, email, message) ==
    LET errors == NameIssues(name) \o EmailIssues(email) \o MessageIssues(message) IN
    IF errors # <<>>
    THEN [success |-> FALSE, errors |-> errors]
    ELSE [success |-> TRUE,
          data |-> [name |-> Trim(name[1]),
                    email |-> Trim(ToLowerCase(email[1])),
                    message |-> Trim(message[1])]]

\* ================================================================ throttle

\* now > entry.resetTime
WindowExpired(entry, t) == t > entry.resetTime

\* !entry || now > entry.resetTime
IsNewWindow(st, identifier, t) ==
    identifier \notin DOMAIN st \/ WindowExpired(st[identifier], t)

NewEntryNoWindow(t) == [count |-> 1, resetTime |-> t, lastSeen |-> t]

\* const newEntry = { count: 1, resetTime: now + window, lastSeen: now }
NewEntry(t) == [count |-> 1, resetTime |-> t + Window, lastSeen |-> t]

LimitExceededOffByOne(entry) == entry.count > MaxRequests

\* entry.count >= this.config.maxRequests
LimitExceeded(entry) == entry.count >= MaxRequests

\* entry.count++; entry.lastSeen = now
Incremented(entry, t) == [entry EXCEPT !.count = @ + 1, !.lastSeen = t]

RemainingOffByOne(entry) == MaxRequests - entry.count - 1

\* remaining: this.config.maxRequests - entry.count
Remaining(entry) == MaxRequests - entry.count

IsStaleNoThreshold(entry, t) == entry.lastSeen < t

\* staleThreshold = now - window * 2; entry.lastSeen < staleThreshold
IsStale(entry, t) == entry.lastSeen < t - Window * 2

\* cleanup(now): delete every stale entry
cleanup(st, t) == [x \in {k \in DOMAIN st : ~IsStale(st[k], t)} |-> st[x]]

StoreAfterCheckLostIncrement(st, identifier, t) ==
    IF IsNewWindow(st, identifier, t)
    THEN cleanup(MapSet(st, identifier, NewEntry(t)), t)
    ELSE st

\* The store as check(identifier) called at time t leaves it.
StoreAfterCheck(st, identifier, t) ==
    IF IsNewWindow(st, identifier, t)
    THEN cleanup(MapSet(st, identifier, NewEntry(t)), t)
    ELSE IF LimitExceeded(st[identifier])
         THEN st
         ELSE MapSet(st, identifier, Incremented(st[identifier], t))

\* The value check(identifier) called at time t returns.
CheckResult(st, identifier, t) ==
    IF IsNewWindow(st, identifier, t)
    THEN [allowed |-> TRUE, remaining |-> MaxRequests - 1,
          resetTime |-> NewEntry(t).resetTime]
    ELSE IF LimitExceeded(st[identifier])
         THEN [allowed |-> FALSE, remaining |-> 0,
               resetTime |-> st[identifier].resetTime]
         ELSE [allowed |-> TRUE,
               remaining |-> Remaining(Incremented(st[identifier], t)),
               resetTime |-> st[identifier].resetTime]

\* History of the calls for one identifier.  A window is opened by the first
\* call for the identifier and by the first call made after the end
\* (start + Window) of the identifier's previous window; calls counts the
\* check calls made in the window and allowed those that returned allowed.
\* The counters stop at MaxCalls.
MaxCalls == MaxRequests + 2

HistOpens(h, identifier, t) ==
    identifier \notin DOMAIN h \/ t > h[identifier].start + Window

HistAfterCheck(h, identifier, t, allowed) ==
    IF HistOpens(h, identifier, t)
    THEN MapSet(h, identifier,
                [start |-> t, calls |-> 1, allowed |-> IF allowed THEN 1 ELSE 0])
    ELSE MapSet(h, identifier,
                [start |-> h[identifier].start,
                 calls |-> Min(h[identifier].calls + 1, MaxCalls),
                 allowed |-> Min(h[identifier].allowed + (IF allowed THEN 1 ELSE 0),
                                 MaxCalls)])

\* History of the allowed calls by the time they were made: recent[id][d] is
\* the number of check(id) calls that returned allowed d instants ago, for
\* d from 0 (the present instant) to Window.
NoRecent == [identifier \in Identifiers |-> [d \in 0 .. Window |-> 0]]

RecentAfterCheck(rc, identifier, allowed) ==
    [rc EXCEPT ![identifier][0] = Min(@ + (IF allowed THEN 1 ELSE 0), MaxCalls)]

\* The history when the clock has advanced by one instant.
RecentAfterTick(rc) ==
    [identifier \in Identifiers |->
        [d \in 0 .. Window |-> IF d = 0 THEN 0 ELSE rc[identifier][d - 1]]]

\* The allowed check(identifier) calls of the last n instants.
RECURSIVE AllowedInLast(_, _, _)
AllowedInLast(rc, identifier, n) ==
    IF n = 0 THEN 0
    ELSE rc[identifier][n - 1] + AllowedInLast(rc, identifier, n - 1)

\* RateLimiter.check(identifier), called at Date.now() = now.
check(identifier) ==
    LET r == CheckResult(store, identifier, now) IN
    /\ store' = StoreAfterCheck(store, identifier, now)
    /\ hist' = HistAfterCheck(hist, identifier, now, r.allowed)
    /\ recent' = RecentAfterCheck(recent, identifier, r.allowed)
    /\ lastCheck' = <<[id |-> identifier, at |-> now,
                       allowed |-> r.allowed, remaining |-> r.remaining,
                       resetTime |-> r.resetTime,
                       before |-> MapGet(store, identifier),
                       callsBefore |-> IF identifier \in DOMAIN hist
                                       THEN hist[identifier].calls ELSE 0,
                       flip |-> IF lastCheck = <<>> THEN 0
                                ELSE 1 - lastCheck[1].flip]>>
    /\ UNCHANGED <<now, tokenVars, routeVars, concVars, pureVars>>

Check == \E identifier \in Identifiers : check(identifier)

\* =========================================================== throttle claims

\* C1: among the check calls for one identifier that fall in one window, the
\* first MaxRequests return allowed = true, and the (MaxRequests+1)-th and
\* every later one return allowed = false with remaining = 0.
C1_WindowLimit ==
    lastCheck # <<>> =>
        LET r == lastCheck[1]
            h == hist[r.id]
        IN /\ (h.calls <= MaxRequests => r.allowed)
           /\ (h.calls > MaxRequests => ~r.allowed /\ r.remaining = 0)

\* The (MaxRequests+1)-th call of a window has just been refused.
C1_Witness ==
    /\ lastCheck # <<>>
    /\ hist[lastCheck[1].id].calls = MaxRequests + 1
    /\ ~lastCheck[1].allowed

\* C2: a check made after the window of the identifier's entry has elapsed
\* returns allowed = true with remaining = MaxRequests - 1 and leaves a fresh
\* entry with count = 1 and resetTime = now + Window, however many allowed
\* or refused calls the previous window saw.
C2_AfterWindow(r) ==
    \/ r.before # <<>> /\ r.at > r.before[1].resetTime
    \/ r.callsBefore > 0 /\ hist[r.id].calls = 1 /\ hist[r.id].start = r.at

C2_FreshWindowAfterExpiry ==
    lastCheck # <<>> =>
        LET r == lastCheck[1] IN
        C2_AfterWindow(r) =>
            /\ r.allowed
            /\ r.remaining = MaxRequests - 1
            /\ r.resetTime = r.at + Window
            /\ r.id \in DOMAIN store
            /\ store[r.id].count = 1
            /\ store[r.id].resetTime = r.at + Window

\* An identifier that was refused in its previous window is served again.
C2_Witness ==
    /\ lastCheck # <<>>
    /\ lastCheck[1].before # <<>>
    /\ lastCheck[1].before[1].count = MaxRequests
    /\ lastCheck[1].callsBefore > MaxRequests
    /\ lastCheck[1].at > lastCheck[1].before[1].resetTime
    /\ lastCheck[1].allowed

\* C3: every stored entry's count is between 1 and MaxRequests; calls made
\* while the identifier is refused do not increment it.
C3_CountInRange ==
    \A k \in DOMAIN store : store[k].count >= 1 /\ store[k].count <= MaxRequests

\* Two calls have been refused in one window and the count is MaxRequests.
C3_Witness ==
    /\ lastCheck # <<>>
    /\ ~lastCheck[1].allowed
    /\ hist[lastCheck[1].id].calls = MaxCalls
    /\ store[lastCheck[1].id].count = MaxRequests

\* C4: every allowed check returns remaining = MaxRequests - count, count
\* being the entry's count after the call; the k-th allowed call of a window
\* returns MaxRequests - k; remaining is never negative.
C4_Remaining ==
    lastCheck # <<>> =>
        LET r == lastCheck[1] IN
        /\ r.remaining >= 0
        /\ r.allowed =>
            /\ r.id \in DOMAIN store
            /\ r.remaining = MaxRequests - store[r.id].count
            /\ r.remaining = MaxRequests - hist[r.id].allowed

\* The last allowed call of a window returned remaining = 0.
C4_Witness ==
    /\ lastCheck # <<>>
    /\ lastCheck[1].allowed
    /\ hist[lastCheck[1].id].allowed = MaxRequests
    /\ lastCheck[1].remaining = 0

\* A step is a check(a) call.
IsCheckOf(a) == lastCheck' # lastCheck /\ lastCheck'[1].id = a

\* A later check(b), at any time t, returns the same from both stores.
SameLaterResult(b) ==
    \A t \in now' .. MaxTime + 1 :
        CheckResult(store', b, t) = CheckResult(store, b, t)

\* C5 as stated: a check(a) call never changes the stored entry (count,
\* resetTime or presence) of another identifier b, nor the result of a later
\* check(b).
C5_IsolationAsStated ==
    [][\A a \in Identifiers : \A b \in Identifiers \ {a} :
          IsCheckOf(a) =>
              /\ MapGet(store', b) = MapGet(store, b)
              /\ SameLaterResult(b)]_vars

\* C5 as amended: a check(a) call never changes the count or resetTime of
\* another identifier b's entry; it may remove b's entry, but only a stale one
\* (lastSeen < now - 2 * Window) whose window is over (resetTime < now), so
\* the result of a later check(b) is never changed.
C5_Isolation ==
    [][\A a \in Identifiers : \A b \in Identifiers \ {a} :
          IsCheckOf(a) =>
              /\ \/ MapGet(store', b) = MapGet(store, b)
                 \/ /\ b \in DOMAIN store
                    /\ b \notin DOMAIN store'
                    /\ store[b].lastSeen < now - 2 * Window
                    /\ store[b].resetTime < now
              /\ SameLaterResult(b)]_vars

\* A check has purged the entry of another identifier that had called.
C5_Witness ==
    /\ lastCheck # <<>>
    /\ \E b \in DOMAIN hist \ {lastCheck[1].id} :
          /\ b \notin DOMAIN store
          /\ hist[b].start + Window * 2 < lastCheck[1].at
    /\ lastCheck[1].at = now

\* C31: a window is current iff now < resetTime: a check made at exactly the
\* resetTime of the identifier's entry is allowed and leaves a fresh entry
\* with count = 1 and resetTime = now + Window, also when the identifier was
\* refused before.
C31_WindowOverAtResetTime ==
    lastCheck # <<>> =>
        LET r == lastCheck[1] IN
        (r.before # <<>> /\ r.at = r.before[1].resetTime) =>
            /\ r.allowed
            /\ r.resetTime = r.at + Window
            /\ r.id \in DOMAIN store
            /\ store[r.id].count = 1
            /\ store[r.id].resetTime = r.at + Window

\* C32: when a check call made at time now has returned, whichever branch it
\* took, no entry of the store has a lastSeen older than now - 2 * Window.
C32_NoStaleEntryAfterCheck ==
    (lastCheck # <<>> /\ lastCheck[1].at = now) =>
        \A k \in DOMAIN store : ~(store[k].lastSeen < now - Window * 2)

\* C33: when check(id) called at time now has returned, allowed or refused,
\* the entry of id has lastSeen = now.
C33_LastSeenIsLastRequest ==
    (lastCheck # <<>> /\ lastCheck[1].at = now) =>
        /\ lastCheck[1].id \in DOMAIN store
        /\ store[lastCheck[1].id].lastSeen = now

\* C34: the limiter is a sliding-window limiter: in every time interval of
\* length Window, wherever it lies relative to the entry's resetTime, at most
\* MaxRequests check calls of an identifier are allowed.  The interval is
\* taken half-open: the last Window instants.
C34_SlidingWindow ==
    \A identifier \in Identifiers :
        AllowedInLast(recent, identifier, Window) <= MaxRequests

\* C35: in every time interval of length Window at most 2 * MaxRequests check
\* calls of an identifier are allowed.  The interval is taken closed: the
\* last Window + 1 instants.
C35_TwiceTheLimit ==
    \A identifier \in Identifiers :
        AllowedInLast(recent, identifier, Window + 1) <= 2 * MaxRequests

\* An interval of length Window holds the allowed calls of two windows of an
\* identifier, more than MaxRequests in all: those that end the first window
\* and all those of the second.
C35_Witness ==
    \E identifier \in DOMAIN hist :
        /\ hist[identifier].start = now
        /\ hist[identifier].allowed = MaxRequests
        /\ AllowedInLast(recent, identifier, Window + 1) > MaxRequests

\* C36: garbage collection never removes a live window: every entry that a
\* cleanup(now) call deletes has resetTime < now, so that a later check of its
\* identifier, at any time, returns what it would have returned with the
\* entry still stored.
C36_CleanupSparesLiveWindows ==
    [][\A b \in DOMAIN store \ DOMAIN store' :
          /\ store[b].resetTime < now
          /\ SameLaterResult(b)]_vars

\* The check that has just returned opened a window, and its cleanup deleted
\* the entry of an identifier that had called before.
C36_Witness ==
    /\ lastCheck # <<>>
    /\ lastCheck[1].at = now
    /\ lastCheck[1].allowed
    /\ store[lastCheck[1].id].count = 1
    /\ \E b \in DOMAIN hist : b \notin DOMAIN store

\* ============================================================ token manager

\* Strings are sequences of characters; Buffer.from(s).length is Len(s).
StringsOfLen(n) == [1 .. n -> HexChars]

\* The values crypto.randomBytes(32).toString('hex') can return.
Tokens == StringsOfLen(TokenLen)

\* The secrets a caller hands to validateCSRFToken: every string of the
\* length of an issued secret, and one string of every other length from 0
\* (the empty string) to MaxSuppliedLen.
Supplied == Tokens \cup {[i \in 1 .. n |-> "0"] : n \in 0 .. MaxSuppliedLen}

\* crypto.timingSafeEqual(Buffer.from(a), Buffer.from(b)): throws a
\* RangeError when the two buffers differ in byte length.
timingSafeEqual(a, b) ==
    IF Len(a) # Len(b) THEN "throw"
    ELSE IF a = b THEN "true" ELSE "false"

\* const storedToken = { token, createdAt: now, expiresAt: now + TOKEN_TTL }
StoredToken(token, t) ==
    [token |-> token, createdAt |-> t, expiresAt |-> t + TOKEN_TTL]

TokenExpiredLate(stored, t) == t > stored.expiresAt + TOKEN_TTL

\* Date.now() > stored.expiresAt
TokenExpired(stored, t) == t > stored.expiresAt

\* cleanupExpiredTokens(): delete every expired token
cleanupExpiredTokens(ts, t) ==
    [x \in {k \in DOMAIN ts : ~TokenExpired(ts[k], t)} |-> ts[x]]

StoreAfterGenerateKeepFirst(ts, sessionId, token, t) ==
    IF sessionId \in DOMAIN ts THEN ts
    ELSE MapSet(ts, sessionId, StoredToken(token, t))

\* The token store as generateCSRFToken(sessionId), drawing the secret token
\* at time t, leaves it.
StoreAfterGenerate(ts, sessionId, token, t) ==
    LET set == MapSet(ts, sessionId, StoredToken(token, t)) IN
    IF Cardinality(DOMAIN set) > MAX_STORED_TOKENS
    THEN cleanupExpiredTokens(set, t)
    ELSE set

\* The outcome of validateCSRFToken(token, sessionId) called at time t:
\* "true" or "false" for the value returned, "throw" for the exception that
\* timingSafeEqual raises.
ValidateResult(ts, token, sessionId, t) ==
    IF sessionId \notin DOMAIN ts THEN "false"
    ELSE IF TokenExpired(ts[sessionId], t) THEN "false"
    ELSE timingSafeEqual(ts[sessionId].token, token)

\* A validateCSRFToken that deletes the token only when it has expired.
StoreAfterValidateKeep(ts, token, sessionId, t) ==
    IF sessionId \notin DOMAIN ts THEN ts
    ELSE IF TokenExpired(ts[sessionId], t) THEN MapDelete(ts, sessionId)
    ELSE ts

\* The token store as validateCSRFToken(token, sessionId) called at time t
\* leaves it: the exception leaves the function before tokenStore.delete.
StoreAfterValidate(ts, token, sessionId, t) ==
    IF sessionId \notin DOMAIN ts THEN ts
    ELSE IF TokenExpired(ts[sessionId], t) THEN MapDelete(ts, sessionId)
    ELSE IF timingSafeEqual(ts[sessionId].token, token) = "throw" THEN ts
    ELSE MapDelete(ts, sessionId)

\* Rank of a secret among the secrets of its length.
RECURSIVE Rank(_)
Rank(s) ==
    IF s = <<>> THEN 0
    ELSE 2 * Rank(SubSeq(s, 1, Len(s) - 1)) + (IF s[Len(s)] = "0" THEN 0 ELSE 1)

\* crypto.randomBytes(32).toString('hex'): the 256 random bits are modelled
\* as a value no earlier call has returned.  Secrets are only compared for
\* equality and length, so one representative draw (the unused secret of
\* least rank) stands for every draw.
FreshTokens(issued) ==
    {s \in Tokens \ issued : \A u \in Tokens \ issued : Rank(s) <= Rank(u)}

\* generateCSRFToken(sessionId), called at Date.now() = now.
generateCSRFToken(sessionId) ==
    \E token \in FreshTokens(issuedEver) :
        /\ tokenStore' = StoreAfterGenerate(tokenStore, sessionId, token, now)
        /\ issuedEver' = issuedEver \cup {token}
        /\ lastIssued' = MapSet(lastIssued, sessionId, token)
        /\ superseded' = [superseded EXCEPT ![sessionId] =
                            IF sessionId \in DOMAIN lastIssued
                            THEN @ \cup {lastIssued[sessionId]} ELSE @]
        /\ valsSince' = [valsSince EXCEPT ![sessionId] = 0]
        /\ spent' = spent \ {sessionId}
        /\ UNCHANGED <<now, throttleVars, lastValidate, routeVars, concVars,
                       pureVars>>

Generate == \E sessionId \in SessionIds : generateCSRFToken(sessionId)

\* validateCSRFToken(token, sessionId), called at Date.now() = now.
validateCSRFToken(token, sessionId) ==
    /\ tokenStore' = StoreAfterValidate(tokenStore, token, sessionId, now)
    /\ valsSince' = [valsSince EXCEPT ![sessionId] = Min(@ + 1, 2)]
    /\ lastValidate' = <<[sessionId |-> sessionId, token |-> token,
                          result |-> ValidateResult(tokenStore, token, sessionId, now),
                          before |-> MapGet(tokenStore, sessionId),
                          late |-> /\ sessionId \in DOMAIN tokenStore
                                   /\ now > tokenStore[sessionId].expiresAt,
                          issued |-> MapGet(lastIssued, sessionId),
                          superseded |-> superseded[sessionId]]>>
    /\ UNCHANGED <<now, throttleVars, issuedEver, lastIssued, superseded, spent,
                   routeVars, concVars, pureVars>>

Validate ==
    \E sessionId \in SessionIds : \E token \in Supplied :
        validateCSRFToken(token, sessionId)

\* ====================================================== token manager claims

\* C6 (one-time use): of two successive validateCSRFToken calls for a session
\* key with no issuance for the key in between, the second returns false,
\* whatever secret each supplied and whatever the first returned.
C6_SecondValidationFails ==
    lastValidate # <<>> =>
        LET r == lastValidate[1] IN
        (r.issued # <<>> /\ valsSince[r.sessionId] >= 2) => r.result = "false"

\* C7: a validateCSRFToken(secret, k) call that finds a stored, unexpired
\* token leaves no entry for k in the token store, whatever the secret
\* supplied (matching, mismatching, empty, of another length).
C7_ConsumedWhateverTheSecret ==
    lastValidate # <<>> =>
        LET r == lastValidate[1] IN
        (r.before # <<>> /\ ~r.late /\ valsSince[r.sessionId] >= 1)
            => r.sessionId \notin DOMAIN tokenStore

\* C8: the first validateCSRFToken call for k after generateCSRFToken(k)
\* returned s, made no later than the token's expiresAt, returns true when it
\* supplies s and returns false when it supplies any other secret.
C8_FirstValidationDecides ==
    lastValidate # <<>> =>
        LET r == lastValidate[1] IN
        (r.before # <<>> /\ ~r.late /\ r.issued # <<>>
         /\ valsSince[r.sessionId] = 1) =>
            r.result = IF r.token = r.issued[1] THEN "true" ELSE "false"

\* C9 (expiry): a token issued at time t has expiresAt = t + TOKEN_TTL, and a
\* validateCSRFToken call made when now > expiresAt returns false, also when
\* it supplies the stored secret, and removes the stale entry.
C9_IssuedWithTtl ==
    \A k \in SessionIds :
        MapGet(lastIssued', k) # MapGet(lastIssued, k)
            => /\ k \in DOMAIN tokenStore'
               /\ tokenStore'[k].token = lastIssued'[k]
               /\ tokenStore'[k].createdAt = now
               /\ tokenStore'[k].expiresAt = now + TOKEN_TTL

C9_LateValidationFails ==
    lastValidate # <<>> =>
        LET r == lastValidate[1] IN
        r.late =>
            /\ r.result = "false"
            /\ (valsSince[r.sessionId] >= 1 => r.sessionId \notin DOMAIN tokenStore)

C9_Expiry == [][C9_IssuedWithTtl]_vars /\ []C9_LateValidationFails

\* The stored secret was supplied after expiresAt and refused.
C9_Witness ==
    /\ lastValidate # <<>>
    /\ lastValidate[1].late
    /\ lastValidate[1].token = lastValidate[1].before[1].token
    /\ lastValidate[1].result = "false"
    /\ lastValidate[1].sessionId \notin DOMAIN tokenStore

\* C10 (overwrite): a validateCSRFToken(x, k) call returns true only if x is
\* the secret returned by the most recent generateCSRFToken(k); a secret
\* issued for k and then overwritten by a later issuance never validates.
C10_OnlyLatestValidates ==
    lastValidate # <<>> =>
        LET r == lastValidate[1] IN
        /\ r.result = "true" =>
              /\ r.issued # <<>>
              /\ r.token = r.issued[1]
              /\ r.token \notin r.superseded
        /\ r.token \in r.superseded => r.result # "true"

\* The first-issued secret was supplied against the live token of a second
\* issuance for the same key.
C10_Witness ==
    /\ lastValidate # <<>>
    /\ lastValidate[1].token \in lastValidate[1].superseded
    /\ lastValidate[1].before # <<>>
    /\ ~lastValidate[1].late
    /\ lastValidate[1].result = "false"

\* C11 (capacity): after any sequence of generateCSRFToken calls, also more
\* than MAX_STORED_TOKENS issuances for distinct session keys within one token
\* lifetime, the token store holds at most MAX_STORED_TOKENS tokens.
C11_StoreBounded == Cardinality(DOMAIN tokenStore) <= MAX_STORED_TOKENS

\* ============================================================ contact route

\* lastGet and lastPost hold the response of the latest step of a route
\* handler at the present instant; lastPost also holds the POST that stands
\* at one of its awaits.
\* No POST is between its first and its last step.
Idle == IF lastPost = <<>> THEN TRUE ELSE lastPost[1].pc = "done"

\* generateSessionId(): crypto.randomBytes(16).toString('hex'), half as long
\* as a token.
SessionIdLen == 1

\* The session keys generateSessionId() can return: every key but the
\* literal 'default'.
GeneratedSessionIds == SessionIds \ {"default"}

\* GET /api/contact.  The fresh session key is not a key of the token store;
\* the second generateSessionId() value is compared with nothing, so one
\* representative draw stands for every draw.
GET ==
    \E sessionId \in GeneratedSessionIds \ DOMAIN tokenStore :
        LET returned == [i \in 1 .. SessionIdLen |-> "0"]
            csrfToken == ValidateResult(tokenStore, <<>>, sessionId, now) IN
        /\ tokenStore' = StoreAfterValidate(tokenStore, <<>>, sessionId, now)
        /\ lastGet' = <<IF csrfToken = "throw"
                        THEN [status |-> 500, sessionId |-> sessionId,
                              csrfToken |-> <<>>]
                        ELSE [status |-> 200, sessionId |-> sessionId,
                              csrfToken |-> returned]>>
        /\ lastPost' = IF Idle THEN <<>> ELSE lastPost
        /\ UNCHANGED <<now, throttleVars, issuedEver, lastIssued, superseded,
                       valsSince, lastValidate, spent, nodeEnv, concVars, pureVars>>

\* The value of a decimal digit.
DigitValue(c) ==
    CASE c = "0" -> 0 [] c = "1" -> 1 [] c = "2" -> 2 [] c = "3" -> 3
      [] c = "4" -> 4 [] c = "5" -> 5 [] c = "6" -> 6 [] c = "7" -> 7
      [] c = "8" -> 8 [] c = "9" -> 9

RECURSIVE DecimalValue(_)
DecimalValue(s) ==
    IF s = <<>> THEN 0
    ELSE 10 * DecimalValue(SubSeq(s, 1, Len(s) - 1)) + DigitValue(s[Len(s)])

\* A JavaScript number: an integer or NaN.
Number(n) == [nan |-> FALSE, value |-> n]

NaN == [nan |-> TRUE, value |-> 0]

\* a <= b on numbers: false when either is NaN
NumberLeq(a, b) == ~a.nan /\ ~b.nan /\ a.value <= b.value

\* parseInt(s, 10): leading whitespace, a sign and the longest run of digits;
\* NaN when there is no digit.
parseInt(s) ==
    LET t == TrimLeft(s)
        signed == t # <<>> /\ t[1] \in {"+", "-"}
        u == IF signed THEN Tail(t) ELSE t
        d == RunLen(u, 1, Digits)
        v == DecimalValue(SubSeq(u, 1, d))
    IN IF d = 0 THEN NaN
       ELSE IF signed /\ t[1] = "-" THEN Number(0 - v) ELSE Number(v)

\* validateRequestSize with size < MAX_REQUEST_SIZE in place of <=.
validateRequestSizeStrict(contentLength) ==
    LET size == IF contentLength # <<>> /\ contentLength[1] # <<>>
                THEN parseInt(contentLength[1]) ELSE Number(0)
    IN [valid |-> ~size.nan /\ size.value < MAX_REQUEST_SIZE, size |-> size]

\* validateRequestSize(request); contentLength is <<>> when the header is
\* absent and <<string>> otherwise.
validateRequestSize(contentLength) ==
    LET size == IF contentLength # <<>> /\ contentLength[1] # <<>>
                THEN parseInt(contentLength[1]) ELSE Number(0)
    IN [valid |-> NumberLeq(size, Number(MAX_REQUEST_SIZE)), size |-> size]

\* x-forwarded-for || x-real-ip || 'unknown'
ClientIp(forwardedFor, realIp) ==
    IF forwardedFor # <<>> /\ forwardedFor[1] # "" THEN forwardedFor[1]
    ELSE IF realIp # <<>> /\ realIp[1] # "" THEN realIp[1]
    ELSE "unknown"

\* The truthiness of a body field holding a string of characters or nothing.
Truthy(v) == v # <<>> /\ v[1] # <<>>

\* 'Retry-After': '60', the length of the limiter's window in seconds.
RETRY_AFTER == Window

\* The rate-limit headers of the 429 response.
LimitedHeaders(r) ==
    [h \in {"Retry-After", "X-RateLimit-Limit", "X-RateLimit-Remaining",
            "X-RateLimit-Reset"} |->
        CASE h = "Retry-After" -> RETRY_AFTER
          [] h = "X-RateLimit-Limit" -> MaxRequests
          [] h = "X-RateLimit-Remaining" -> 0
          [] h = "X-RateLimit-Reset" -> r.resetTime]

\* SuccessHeaders with remaining '0' in place of rateLimitResult.remaining.
SuccessHeadersNoneLeft(r) ==
    [h \in {"X-RateLimit-Limit", "X-RateLimit-Remaining", "X-RateLimit-Reset"} |->
        CASE h = "X-RateLimit-Limit" -> MaxRequests
          [] h = "X-RateLimit-Remaining" -> 0
          [] h = "X-RateLimit-Reset" -> r.resetTime]

\* The rate-limit headers of the 200 response.
SuccessHeaders(r) ==
    [h \in {"X-RateLimit-Limit", "X-RateLimit-Remaining", "X-RateLimit-Reset"} |->
        CASE h = "X-RateLimit-Limit" -> MaxRequests
          [] h = "X-RateLimit-Remaining" -> r.remaining
          [] h = "X-RateLimit-Reset" -> r.resetTime]

\* safeErrorResponse(message): the status argument is left to its default.
safeErrorResponse(message) ==
    [formatter |-> "safeErrorResponse", error |-> message, status |-> 500]

\* The body of the 400 response, built in the handler.
ValidationFailedBody(errors) ==
    [formatter |-> "inline", error |-> "Validation failed",
     fields |-> [i \in 1 .. Len(errors) |->
                    [field |-> errors[i].field, message |-> errors[i].message]]]

\* The body of the 200 response.
SuccessBody ==
    [formatter |-> "inline", success |-> TRUE,
     message |-> "Message sent successfully!"]

\* The requests of the model: the content-length header, the address
\* headers and the fields of the JSON body, each <<>> when absent.  The
\* requests carry no address header, so that all are counted under 'unknown'.
LEN_10240 == <<"1", "0", "2", "4", "0">>
LEN_10241 == <<"1", "0", "2", "4", "1">>
LEN_NAN == <<"a", "b", "c">>
NAME_SHORT == <<"J">>
NAME_OK == <<"O", "'", "B">>
EMAIL_BAD == <<"a", "@", "b">>
EMAIL_OK == <<"A", "@", "b", ".", "c", "o">>
MESSAGE_BAD == <<"<", "b", ">">>
MESSAGE_OK == <<"I", "t", "'", "s", " ", "a", " ", "t", "e", "s", "t">>

ContentLengths == {<<>>, <<LEN_10240>>, <<LEN_10241>>, <<LEN_NAN>>}

HeaderIps == {<<>>}

CsrfTokenInputs == {<<>>} \cup {<<t>> : t \in Supplied}

SessionIdInputs == {<<>>} \cup {<<k>> : k \in SessionIds}

Submission(name, email, message) ==
    [name |-> name, email |-> email, message |-> message]

Submissions ==
    {Submission(<<NAME_OK>>, <<EMAIL_OK>>, <<MESSAGE_OK>>),
     Submission(<<NAME_OK>>, <<EMAIL_BAD>>, <<MESSAGE_BAD>>),
     Submission(<<NAME_SHORT>>, <<EMAIL_BAD>>, <<MESSAGE_BAD>>),
     Submission(<<>>, <<>>, <<>>)}

\* How a supplied secret relates to the token store at time t.
SuppliedKind(ts, token, sessionId, t) ==
    IF sessionId \notin DOMAIN ts THEN "unknownKey"
    ELSE IF t > ts[sessionId].expiresAt THEN "expired"
    ELSE IF token = ts[sessionId].token THEN "match"
    ELSE IF Len(token) = Len(ts[sessionId].token) THEN "mismatch"
    ELSE "lengthMismatch"

\* lastPost holds the latest POST request: where the handler stands (pc:
\* "json", "csrf" and "db" are its awaits, "done" is after its return), the
\* response, and what the handler has done.  contentLength is <<header>>
\* until request.json() returns; csrf_token and sessionId tell whether the
\* body fields are truthy; supplied is the SuppliedKind of a validated
\* secret; created lists the calls of db.contactSubmission.create.
NoPost ==
    [pc |-> "json", status |-> 0, contentLength |-> <<>>, callsBefore |-> 0,
     throttle |-> <<>>, csrf |-> "notRun", csrf_token |-> FALSE,
     sessionId |-> FALSE, supplied |-> "none", again |-> FALSE, parsed |-> <<>>,
     created |-> <<>>, headers |-> <<>>, body |-> <<>>]

\* A step of the handler that changes the stores to st, h and ts, and the
\* session keys whose secret has been presented to sp.
StepPresenting(post, st, h, ts, sp) ==
    /\ lastPost' = <<post>>
    /\ store' = st
    /\ hist' = h
    /\ tokenStore' = ts
    /\ spent' = sp
    /\ lastGet' = <<>>
    /\ UNCHANGED <<now, lastCheck, recent, issuedEver, lastIssued, superseded,
                   valsSince, lastValidate, nodeEnv, concVars, pureVars>>

\* A step of the handler in which no secret is presented.
Step(post, st, h, ts) == StepPresenting(post, st, h, ts, spent)

\* Whether token is the secret last issued for sessionId.
IsIssuedSecret(token, sessionId) ==
    sessionId \in DOMAIN lastIssued /\ lastIssued[sessionId] = token

\* The handler returns a response.
Respond(post, status, headers, body, st, h, ts) ==
    Step([post EXCEPT !.pc = "done", !.status = status, !.headers = headers,
                      !.body = body],
         st, h, ts)

\* The handler from contactFormSchema.safeParse to the call of
\* db.contactSubmission.create.
ValidateAndCreate(post, st, h, ts) ==
    \E submission \in Submissions :
        LET validationResult == safeParse(submission.name, submission.email,
                                          submission.message)
            parsed == [post EXCEPT !.parsed = <<submission>>]
        IN IF ~validationResult.success
           THEN Respond(parsed, 400, <<>>,
                        ValidationFailedBody(validationResult.errors), st, h, ts)
           ELSE Step([parsed EXCEPT !.pc = "db",
                                    !.created = <<validationResult.data>>],
                     st, h, ts)

\* The handler from the CSRF block to its next await.
CsrfAndAfter(post, st, h) ==
    \E csrf_token \in CsrfTokenInputs, sessionId \in SessionIdInputs :
        LET sent == [post EXCEPT
                        !.csrf_token = Truthy(csrf_token),
                        !.sessionId = sessionId # <<>> /\ sessionId[1] # ""]
        IN IF sent.csrf_token /\ sent.sessionId
           THEN IF nodeEnv = "production"
                THEN LET isValid == ValidateResult(tokenStore, csrf_token[1],
                                                   sessionId[1], now)
                         ts == StoreAfterValidate(tokenStore, csrf_token[1],
                                                  sessionId[1], now)
                         called == [sent EXCEPT
                                       !.csrf = isValid,
                                       !.supplied = SuppliedKind(tokenStore,
                                            csrf_token[1], sessionId[1], now),
                                       !.again =
                                            /\ sessionId[1] \in spent
                                            /\ IsIssuedSecret(csrf_token[1],
                                                              sessionId[1])]
                         sp == IF IsIssuedSecret(csrf_token[1], sessionId[1])
                               THEN spent \cup {sessionId[1]} ELSE spent
                     IN IF isValid = "throw"
                        THEN Respond(called, 500, <<>>,
                                     safeErrorResponse("Failed to send message"),
                                     st, h, ts)
                        ELSE StepPresenting([called EXCEPT !.pc = "csrf"], st, h,
                                            ts, sp)
                ELSE ValidateAndCreate([sent EXCEPT !.csrf = "skipped"],
                                       st, h, tokenStore)
           ELSE ValidateAndCreate([sent EXCEPT !.csrf = "skipped"],
                                  st, h, tokenStore)

\* POST /api/contact, from its start to await request.json().
PostStart ==
    /\ Idle
    /\ \E contentLength \in ContentLengths :
        LET post == [NoPost EXCEPT !.contentLength = <<contentLength>>] IN
        IF ~validateRequestSize(contentLength).valid
        THEN Respond(post, 413, <<>>,
                     safeErrorResponse("Request too large. Maximum size is 10KB."),
                     store, hist, tokenStore)
        ELSE Step(post, store, hist, tokenStore)

\* POST from the return of request.json() to its next await.
PostParsed ==
    /\ lastPost # <<>>
    /\ lastPost[1].pc = "json"
    /\ LET post == [lastPost[1] EXCEPT !.contentLength = <<>>] IN
       \E jsonOk \in BOOLEAN :
        IF ~jsonOk
        THEN Respond(post, 500, <<>>, safeErrorResponse("Failed to send message"),
                     store, hist, tokenStore)
        ELSE \E forwardedFor \in HeaderIps, realIp \in HeaderIps :
                LET ip == ClientIp(forwardedFor, realIp)
                    rateLimitResult == CheckResult(store, ip, now)
                    st == StoreAfterCheck(store, ip, now)
                    h == HistAfterCheck(hist, ip, now, rateLimitResult.allowed)
                    checked == [post EXCEPT
                                   !.callsBefore = IF HistOpens(hist, ip, now)
                                                   THEN 0 ELSE hist[ip].calls,
                                   !.throttle = <<rateLimitResult>>]
                IN IF ~rateLimitResult.allowed
                   THEN Respond(checked, 429, LimitedHeaders(rateLimitResult),
                                safeErrorResponse("Too many requests. Please try again later."),
                                st, h, tokenStore)
                   ELSE CsrfAndAfter(checked, st, h)

\* POST from the return of await validateCSRFToken(...) to its next await.
PostValidated ==
    /\ lastPost # <<>>
    /\ lastPost[1].pc = "csrf"
    /\ IF lastPost[1].csrf = "false"
       THEN Respond(lastPost[1], 403, <<>>,
                    safeErrorResponse("Invalid CSRF token"),
                    store, hist, tokenStore)
       ELSE ValidateAndCreate(lastPost[1], store, hist, tokenStore)

\* POST from the return of db.contactSubmission.create to its response.  The
\* outcome of the Supabase insert never changes the response.
PostStored ==
    /\ lastPost # <<>>
    /\ lastPost[1].pc = "db"
    /\ \E dbOk \in BOOLEAN :
        IF ~dbOk
        THEN Respond(lastPost[1], 500, <<>>,
                     safeErrorResponse("Failed to save message"),
                     store, hist, tokenStore)
        ELSE Respond(lastPost[1], 200, SuccessHeaders(lastPost[1].throttle[1]),
                     SuccessBody, store, hist, tokenStore)

POST == PostStart \/ PostParsed \/ PostValidated \/ PostStored

\* ======================================================= concurrent POSTs

\* The POST handlers that run at the same time.  Each is the handler of POST
\* /api/contact cut at its awaits; the steps of the handlers interleave.
Handlers == {1, 2}

\* A handler that serves no request: pc is "idle" until a request arrives
\* and after the response; while a request is served, csrf_token and
\* sessionId are the fields of its body handed to validateCSRFToken and csrf
\* is what that call returned.
NoHandler ==
    [pc |-> "idle", csrf |-> "notRun", csrf_token |-> <<>>, sessionId |-> <<>>]

\* Secrets that were never issued: one of the length of an issued secret (the
\* secret drawn last of all) and one that is shorter.
Forged == {[i \in 1 .. TokenLen |-> "f"], <<"0">>}

\* The concurrent requests carry a csrf_token and a sessionId: the
\* csrf_token is a secret that was issued, or a forged one.
ConcurrentTokens == {<<t>> : t \in issuedEver \cup Forged}

ConcurrentSessionIds == {<<k>> : k \in SessionIds}

\* Handler h goes on to its next await, or returns the response of the given
\* status and with it leaves the request.
Goes(h, handler, st, hi, ts, pa) ==
    /\ handlers' = [handlers EXCEPT ![h] = handler]
    /\ store' = st
    /\ hist' = hi
    /\ tokenStore' = ts
    /\ passed' = pa
    /\ UNCHANGED <<now, lastCheck, recent, issuedEver, lastIssued, superseded,
                   valsSince, lastValidate, spent, routeVars, pureVars>>

Returns(h, status, st, hi, ts, pa) ==
    Goes(h, NoHandler, st, hi, ts, pa)

\* Handler h from the arrival of a request to await request.json().
HandlerStart(h) ==
    /\ handlers[h].pc = "idle"
    /\ \E contentLength \in ContentLengths :
        IF ~validateRequestSize(contentLength).valid
        THEN Returns(h, 413, store, hist, tokenStore, passed)
        ELSE Goes(h, [NoHandler EXCEPT !.pc = "json"], store, hist,
                  tokenStore, passed)

\* Handler h from the return of request.json() to await validateCSRFToken.
HandlerParsed(h) ==
    /\ handlers[h].pc = "json"
    /\ \E jsonOk \in BOOLEAN :
        IF ~jsonOk
        THEN Returns(h, 500, store, hist, tokenStore, passed)
        ELSE \E forwardedFor \in HeaderIps, realIp \in HeaderIps :
                LET ip == ClientIp(forwardedFor, realIp)
                    rateLimitResult == CheckResult(store, ip, now)
                    st == StoreAfterCheck(store, ip, now)
                    hi == HistAfterCheck(hist, ip, now, rateLimitResult.allowed)
                IN IF ~rateLimitResult.allowed
                   THEN Returns(h, 429, st, hi, tokenStore, passed)
                   ELSE \E csrf_token \in ConcurrentTokens,
                           sessionId \in ConcurrentSessionIds :
                          LET isValid == ValidateResult(tokenStore, csrf_token[1],
                                                        sessionId[1], now)
                              ts == StoreAfterValidate(tokenStore, csrf_token[1],
                                                       sessionId[1], now)
                              called == [handlers[h] EXCEPT
                                            !.csrf = isValid,
                                            !.csrf_token = csrf_token,
                                            !.sessionId = sessionId]
                          IN IF isValid = "throw"
                             THEN Returns(h, 500, st, hi, ts, passed)
                             ELSE Goes(h, [called EXCEPT !.pc = "csrf"], st, hi, ts,
                                       IF isValid = "true"
                                       THEN [passed EXCEPT ![csrf_token[1]] =
                                                Min(@ + 1, 2)]
                                       ELSE passed)

\* Handler h from the return of await validateCSRFToken to await
\* db.contactSubmission.create.
HandlerValidated(h) ==
    /\ handlers[h].pc = "csrf"
    /\ IF handlers[h].csrf = "false"
       THEN Returns(h, 403, store, hist, tokenStore, passed)
       ELSE \E submission \in Submissions :
               IF ~safeParse(submission.name, submission.email,
                             submission.message).success
               THEN Returns(h, 400, store, hist, tokenStore, passed)
               ELSE Goes(h, [handlers[h] EXCEPT !.pc = "db"], store, hist,
                         tokenStore, passed)

\* Handler h from the return of db.contactSubmission.create to its response.
HandlerStored(h) ==
    /\ handlers[h].pc = "db"
    /\ \E dbOk \in BOOLEAN :
        Returns(h, IF dbOk THEN 200 ELSE 500, store, hist,
                tokenStore, passed)

ConcurrentPOST ==
    \E h \in Handlers :
        HandlerStart(h) \/ HandlerParsed(h) \/ HandlerValidated(h) \/ HandlerStored(h)

\* ============================================================= route claims

\* C12: the pair (sessionId, csrfToken) returned by GET /api/contact is stored
\* by the token manager: validateCSRFToken(csrfToken, sessionId) called before
\* expiry returns true, so a production POST carrying the pair passes token
\* validation.
C12_GetIssuesUsableToken ==
    (lastGet # <<>> /\ lastGet[1].status = 200) =>
        /\ lastGet[1].sessionId \in DOMAIN tokenStore
        /\ tokenStore[lastGet[1].sessionId].token = lastGet[1].csrfToken
        /\ ValidateResult(tokenStore, lastGet[1].csrfToken,
                          lastGet[1].sessionId, now) = "true"

\* C13: in production no POST reaches schema validation or persistence unless
\* a token validation succeeded for it, and a POST that passed the throttle
\* with csrf_token or sessionId missing gets 403.
C13_ValidationMandatory ==
    (lastPost # <<>> /\ nodeEnv = "production") =>
        /\ (lastPost[1].parsed # <<>> \/ lastPost[1].created # <<>>) =>
               lastPost[1].csrf = "true"
        /\ ( /\ lastPost[1].pc = "done"
             /\ lastPost[1].throttle # <<>>
             /\ lastPost[1].throttle[1].allowed
             /\ ~(lastPost[1].csrf_token /\ lastPost[1].sessionId) ) =>
               lastPost[1].status = 403

\* C14: in production every POST whose supplied token fails validation, for an
\* unknown session key, an expired token or a mismatching secret of the same
\* or of a different length, gets 403, never 500 or success.
C14_FailedTokenForbidden ==
    ( /\ lastPost # <<>>
      /\ nodeEnv = "production"
      /\ lastPost[1].pc = "done"
      /\ lastPost[1].supplied \in {"unknownKey", "expired", "mismatch",
                                   "lengthMismatch"} ) =>
        lastPost[1].status = 403

\* C15: of the POSTs of one identifier inside one window the first MaxRequests
\* pass the throttle, and every later one gets 429 with no token validation
\* (the token store is left as it was), no schema validation and no
\* persistence call.
C15_FourthPostLimited ==
    /\ [](lastPost # <<>> /\ lastPost[1].throttle # <<>> =>
            /\ lastPost[1].callsBefore < MaxRequests =>
                  /\ lastPost[1].throttle[1].allowed
                  /\ lastPost[1].status # 429
            /\ lastPost[1].callsBefore >= MaxRequests =>
                  /\ lastPost[1].pc = "done"
                  /\ lastPost[1].status = 429
                  /\ lastPost[1].csrf = "notRun"
                  /\ lastPost[1].parsed = <<>>
                  /\ lastPost[1].created = <<>>)
    /\ [][(lastPost' # <<>> /\ lastPost' # lastPost /\ lastPost'[1].status = 429)
            => tokenStore' = tokenStore]_vars

C15_Witness ==
    /\ lastPost # <<>>
    /\ lastPost[1].status = 429
    /\ lastPost[1].callsBefore = MaxRequests
    /\ tokenStore # <<>>

\* The declared length is a number above MAX_REQUEST_SIZE.
Exceeds(contentLength) ==
    /\ contentLength # <<>>
    /\ contentLength[1] # <<>>
    /\ \A i \in 1 .. Len(contentLength[1]) : contentLength[1][i] \in Digits
    /\ DecimalValue(contentLength[1]) > 10 * 1024

\* C16: a POST whose declared content-length exceeds 10240 gets 413 before
\* the body is parsed and before any throttle check, token validation or
\* persistence call; a declared length of 10240 or an absent header is not
\* rejected.
C16_SizeGuard ==
    /\ []((lastPost # <<>> /\ lastPost[1].contentLength # <<>>) =>
            /\ Exceeds(lastPost[1].contentLength[1]) =>
                  /\ lastPost[1].pc = "done"
                  /\ lastPost[1].status = 413
                  /\ lastPost[1].throttle = <<>>
                  /\ lastPost[1].csrf = "notRun"
                  /\ lastPost[1].parsed = <<>>
                  /\ lastPost[1].created = <<>>
            /\ lastPost[1].contentLength[1] \in {<<>>, <<LEN_10240>>} =>
                  /\ lastPost[1].pc = "json"
                  /\ lastPost[1].status # 413)
    /\ [][(lastPost' # <<>> /\ lastPost' # lastPost /\ lastPost'[1].status = 413)
            => (store' = store /\ hist' = hist /\ tokenStore' = tokenStore)]_vars

C16_Witness ==
    /\ lastPost # <<>>
    /\ lastPost[1].contentLength = << <<LEN_10241>> >>
    /\ lastPost[1].status = 413

\* C17: every name, email and message handed to db.contactSubmission.create
\* is the sanitizeInput of the value schema validation returned.
C17_PersistedSanitized ==
    (lastPost # <<>> /\ lastPost[1].created # <<>>) =>
        LET submission == lastPost[1].parsed[1]
            validated == safeParse(submission.name, submission.email,
                                   submission.message).data
            stored == lastPost[1].created[1]
        IN /\ stored.name = sanitizeInput(validated.name)
           /\ stored.email = sanitizeInput(validated.email)
           /\ stored.message = sanitizeInput(validated.message)

\* The submission passes schema validation.
ValidSubmission(submission) ==
    /\ NameIssues(submission.name) = <<>>
    /\ EmailIssues(submission.email) = <<>>
    /\ MessageIssues(submission.message) = <<>>

\* C18: a POST with valid fields, a valid unexpired token and an identifier
\* with no earlier request in the window is answered, once the persistence
\* call has returned, with 200, after exactly one db.contactSubmission.create
\* call and with the remaining hint MaxRequests - 1; the response is another
\* one only when that call itself fails.  On 413, 429, 403 and 400 no
\* persistence call is made.
C18_SuccessPersistsOnce ==
    (lastPost # <<>> /\ lastPost[1].pc = "done") =>
        /\ ( /\ lastPost[1].callsBefore = 0
             /\ lastPost[1].csrf = "true"
             /\ lastPost[1].parsed # <<>>
             /\ ValidSubmission(lastPost[1].parsed[1]) ) =>
               /\ Len(lastPost[1].created) = 1
               /\ \/ /\ lastPost[1].status = 200
                     /\ lastPost[1].headers["X-RateLimit-Remaining"] = MaxRequests - 1
                  \/ /\ lastPost[1].status = 500
                     /\ lastPost[1].body.error = "Failed to save message"
        /\ lastPost[1].status = 200 => Len(lastPost[1].created) = 1
        /\ lastPost[1].status \in {413, 429, 403, 400} =>
               lastPost[1].created = <<>>

C18_Witness ==
    /\ lastPost # <<>>
    /\ lastPost[1].pc = "done"
    /\ lastPost[1].status = 200
    /\ lastPost[1].callsBefore = 0
    /\ lastPost[1].csrf = "true"

\* The fields of a submission that fail schema validation.
FailingFields(submission) ==
    (IF NameIssues(submission.name) # <<>> THEN {"name"} ELSE {})
    \cup (IF EmailIssues(submission.email) # <<>> THEN {"email"} ELSE {})
    \cup (IF MessageIssues(submission.message) # <<>> THEN {"message"} ELSE {})

\* C19: the 400 response carries an entry (field name and reason) for every
\* field that fails schema validation, and for no other field.
C19_AllFieldErrors ==
    (lastPost # <<>> /\ lastPost[1].status = 400) =>
        LET fields == lastPost[1].body.fields IN
        /\ {fields[i].field : i \in 1 .. Len(fields)} =
               FailingFields(lastPost[1].parsed[1])
        /\ \A i \in 1 .. Len(fields) : fields[i].message # ""

C19_Witness ==
    /\ lastPost # <<>>
    /\ lastPost[1].status = 400
    /\ FailingFields(lastPost[1].parsed[1]) = {"name", "email", "message"}
    /\ Len(lastPost[1].body.fields) >= 3

\* C20: the Retry-After of every 429 response is the time left from the
\* response until the resetTime the throttle check returned.
C20_RetryAfterIsTimeLeft ==
    (lastPost # <<>> /\ lastPost[1].status = 429) =>
        lastPost[1].headers["Retry-After"] = lastPost[1].throttle[1].resetTime - now

\* C21: every response of a POST that passed the throttle check (200, 400,
\* 403, 429 and 500) carries the hints X-RateLimit-Limit, X-RateLimit-Remaining
\* and X-RateLimit-Reset taken from that request's throttle result.
C21_HintsOnEveryOutcome ==
    (lastPost # <<>> /\ lastPost[1].pc = "done" /\ lastPost[1].throttle # <<>>) =>
        /\ {"X-RateLimit-Limit", "X-RateLimit-Remaining", "X-RateLimit-Reset"}
               \subseteq DOMAIN lastPost[1].headers
        /\ lastPost[1].headers["X-RateLimit-Limit"] = MaxRequests
        /\ lastPost[1].headers["X-RateLimit-Remaining"] =
               lastPost[1].throttle[1].remaining
        /\ lastPost[1].headers["X-RateLimit-Reset"] =
               lastPost[1].throttle[1].resetTime

\* C22: the body of every error response of the contact endpoint (413, 429,
\* 403, 400 and 500) is built by safeErrorResponse.
C22_ErrorsThroughFormatter ==
    ( /\ lastPost # <<>>
      /\ lastPost[1].pc = "done"
      /\ lastPost[1].status \in {413, 429, 403, 400, 500} ) =>
        lastPost[1].body.formatter = "safeErrorResponse"

\* C23: however the steps of concurrently running POST handlers interleave
\* at their awaits, no secret passes validateCSRFToken more than once: of the
\* handlers that present the same csrf_token and sessionId at most one passes
\* token validation.
C23_TokenValidatedOnce ==
    /\ \A t \in Tokens : passed[t] <= 1
    /\ \A g \in Handlers, h \in Handlers :
        ( /\ g # h
          /\ handlers[g].csrf = "true"
          /\ handlers[h].csrf_token = handlers[g].csrf_token
          /\ handlers[h].sessionId = handlers[g].sessionId ) =>
            handlers[h].csrf # "true"

\* Two handlers in flight at once have presented the same csrf_token and
\* sessionId: one passed token validation and the other did not.
C23_Witness ==
    \E g \in Handlers, h \in Handlers :
        /\ g # h
        /\ handlers[g].pc \in {"csrf", "db"}
        /\ handlers[h].pc = "csrf"
        /\ handlers[g].csrf = "true"
        /\ handlers[h].csrf = "false"
        /\ handlers[h].csrf_token = handlers[g].csrf_token
        /\ handlers[h].sessionId = handlers[g].sessionId

\* C24: however the steps of concurrently running POST handlers for one
\* identifier interleave inside one window, the count of the identifier's
\* entry is the number of those requests the throttle allowed, and the
\* throttle allowed at most maxRequests of them.
C24_CountIsAllowedRequests ==
    \A identifier \in DOMAIN store :
        ( /\ identifier \in DOMAIN hist
          /\ store[identifier].resetTime = hist[identifier].start + Window ) =>
            /\ store[identifier].count = hist[identifier].allowed
            /\ hist[identifier].allowed <= MaxRequests

\* Two handlers are in flight after the throttle allowed both, and with them
\* the window of their identifier is used up.
C24_Witness ==
    /\ \A h \in Handlers : handlers[h].pc \in {"csrf", "db"}
    /\ \E identifier \in DOMAIN store :
        /\ identifier \in DOMAIN hist
        /\ store[identifier].resetTime = hist[identifier].start + Window
        /\ store[identifier].count = MaxRequests
        /\ hist[identifier].allowed = MaxRequests

\* C37: every POST that passes the size guard performs one throttle check for
\* its client identifier before anything else can end the request: a POST
\* whose body is not parseable JSON is answered after a throttle check too.
C37_ThrottleCheckedFirst ==
    ( /\ lastPost # <<>>
      /\ lastPost[1].pc = "done"
      /\ lastPost[1].status # 413 ) =>
        lastPost[1].throttle # <<>>

\* C38: in production mode the first POST that presents the secret issued for
\* a session key and passes the throttle consumes it, however that POST ends:
\* a later POST that presents the same secret and session key, no secret
\* having been issued for the key in between, is answered 403.
C38_PresentedTokenIsSpent ==
    (lastPost # <<>> /\ lastPost[1].again) =>
        /\ lastPost[1].csrf = "false"
        /\ lastPost[1].pc = "done" => lastPost[1].status = 403

\* A POST that presented a secret presented before has been answered 403.
C38_Witness ==
    /\ lastPost # <<>>
    /\ lastPost[1].again
    /\ lastPost[1].pc = "done"
    /\ lastPost[1].status = 403

\* The clock advances.
Tick ==
    /\ now < MaxTime
    /\ now' = now + 1
    /\ lastGet' = <<>>
    /\ lastPost' = IF Idle THEN <<>> ELSE lastPost
    /\ recent' = RecentAfterTick(recent)
    /\ UNCHANGED <<store, lastCheck, hist, tokenVars, nodeEnv, concVars, pureVars>>

\* =================================================================== Init
\* The stores are empty when the modules are loaded.
StoresInit ==
    /\ now = 0
    /\ store = <<>>
    /\ lastCheck = <<>>
    /\ hist = <<>>
    /\ tokenStore = <<>>
    /\ issuedEver = {}
    /\ lastIssued = <<>>
    /\ superseded = [k \in SessionIds |-> {}]
    /\ valsSince = [k \in SessionIds |-> 0]
    /\ spent = {}
    /\ lastValidate = <<>>
    /\ lastGet = <<>>
    /\ lastPost = <<>>
    /\ recent = NoRecent
    /\ handlers = [h \in Handlers |-> NoHandler]
    /\ passed = [t \in Tokens |-> 0]
    /\ result = <<>>
    /\ lastIndex = NoLastIndex

\* The server runs in production mode; no pure function is being called.
Init == StoresInit /\ nodeEnv = "production" /\ arg = <<>>

\* ======================================================== sanitizer calls

\* The inputs of sanitizeInput: every concatenation of at most MaxFragments
\* fragments, the examples of the documentation, and strings longer than the
\* ceiling of 2000 characters.
MaxFragments == 2

OPEN_SCRIPT == <<"<">> \o SCRIPT \o <<">">>

CLOSE_SCRIPT == <<"<", "/">> \o SCRIPT \o <<">">>

Fragments ==
    { <<"&">>, <<"<">>, <<">">>, <<"\"">>, <<"'">>, <<"/">>, <<" ">>, <<"a">>,
      <<"NUL">>, <<"j", "a", "v", "a">>, SCRIPT \o <<":">>, OPEN_SCRIPT,
      CLOSE_SCRIPT, <<"o", "n", "x", "=">>, <<"&", "#", "1", ";">> }

RECURSIVE Concatenations(_)
Concatenations(n) ==
    IF n = 0 THEN {<<>>}
    ELSE LET shorter == Concatenations(n - 1) IN
         shorter \cup {x \o f : x \in shorter, f \in Fragments}

\* "<script>alert(1)</script>Hello" and "javajavascript:script:"
ScriptExample ==
    OPEN_SCRIPT \o <<"a", "l", "e", "r", "t", "(", "1", ")">> \o CLOSE_SCRIPT
        \o <<"H", "e", "l", "l", "o">>

NestedExample == <<"j", "a", "v", "a">> \o JAVASCRIPT \o <<":">> \o SCRIPT \o <<":">>

\* 2001 characters with a blank before the last one, and 2001 characters that
\* the entity encoding lengthens.
LongInputs ==
    { [i \in 1 .. SANITIZE_MAX_LENGTH - 1 |-> "a"] \o <<" ", "b">>,
      [i \in 1 .. SANITIZE_MAX_LENGTH + 1 |-> IF i % 500 = 0 THEN "&" ELSE "a"] }

SanitizeInputs ==
    Concatenations(MaxFragments) \cup {ScriptExample, NestedExample} \cup LongInputs

\* The value to sanitize has arrived and sanitizeInput has not yet run.
SanitizeInit ==
    StoresInit /\ nodeEnv = "production" /\ arg \in {<<x>> : x \in SanitizeInputs}

\* sanitizeInput(input): result keeps what the call returns.
Sanitize ==
    /\ arg # <<>>
    /\ result = <<>>
    /\ result' = <<sanitizeInput(arg[1])>>
    /\ lastIndex' = NoLastIndex
    /\ UNCHANGED <<now, throttleVars, tokenVars, routeVars, concVars, arg>>

\* sanitizeInput called on the value an earlier sanitizeInput returned.
SanitizeAgain ==
    /\ arg # <<>>
    /\ Len(result) = 1
    /\ result' = Append(result, sanitizeInput(result[1]))
    /\ lastIndex' = NoLastIndex
    /\ UNCHANGED <<now, throttleVars, tokenVars, routeVars, concVars, arg>>

SanitizeNext == Sanitize \/ SanitizeAgain

SpecSanitize == SanitizeInit /\ [][SanitizeNext]_vars

\* C25: sanitizeInput is idempotent: sanitizing a sanitized value returns it
\* unchanged, also for inputs with the characters & < > " ' and /.
C25_SanitizeIdempotent ==
    Len(result) = 2 => result[2] = result[1]

\* C26: what sanitizeInput returns has no raw '<', no raw '>' and no
\* "<script>" in it.
C26_NoRawAngleBrackets ==
    \A k \in 1 .. Len(result) :
        /\ \A i \in 1 .. Len(result[k]) : result[k][i] \notin {"<", ">"}
        /\ ~Includes(result[k], OPEN_SCRIPT)

\* sanitizeInput has returned a non-empty value for an input with "<script>"
\* in it.
C26_Witness ==
    /\ arg # <<>>
    /\ Includes(arg[1], OPEN_SCRIPT)
    /\ Len(result) >= 1
    /\ result[1] # <<>>

\* C27: what sanitizeInput returns matches no pattern of DANGEROUS_PATTERNS,
\* also when the input nests one pattern in another.
C27_OutputHasNoPattern ==
    \A k \in 1 .. Len(result) : ~ContainsDangerousPatterns(result[k])

\* C28: what sanitizeInput returns has at most 2000 characters and neither
\* starts nor ends with whitespace.
C28_BoundedAndTrimmed ==
    \A k \in 1 .. Len(result) :
        /\ Len(result[k]) <= SANITIZE_MAX_LENGTH
        /\ result[k] # <<>> =>
            /\ result[k][1] \notin Whitespace
            /\ result[k][Len(result[k])] \notin Whitespace

\* =========================================================== schema calls

\* The values of a field: every string of at most MaxFieldLen characters
\* over a few characters of the field, put after a stem, and the strings at
\* the upper limit of the field's length.
MaxFieldLen == 3

RECURSIVE StringsUpTo(_, _)
StringsUpTo(alphabet, n) ==
    IF n = 0 THEN {<<>>}
    ELSE LET shorter == StringsUpTo(alphabet, n - 1) IN
         shorter \cup {x \o <<c>> : x \in shorter, c \in alphabet}

Repeat(c, n) == [i \in 1 .. n |-> c]

SchemaNames ==
    StringsUpTo({"a", " ", "1"}, MaxFieldLen)
        \cup {Repeat("a", NAME_MAX), Repeat("a", NAME_MAX + 1),
              Repeat("a", NAME_MAX) \o <<" ">>}

EMAIL_HOST == <<"@", "b", ".", "c", "o">>

SchemaEmails ==
    {local \o EMAIL_HOST : local \in StringsUpTo({"a", "+", "."}, MaxFieldLen)}
        \cup {<<"a", "@", "b">>, <<"A", "@", "b", ".", "c", "o", " ">>,
              Repeat("a", EMAIL_MAX - Len(EMAIL_HOST)) \o EMAIL_HOST,
              Repeat("a", EMAIL_MAX + 1 - Len(EMAIL_HOST)) \o EMAIL_HOST}

SchemaMessages ==
    {Repeat("a", MESSAGE_MIN - 2) \o x : x \in StringsUpTo({"a", " "}, MaxFieldLen)}
        \cup {Repeat("a", MESSAGE_MAX), Repeat("a", MESSAGE_MAX + 1),
              Repeat("a", MESSAGE_MAX) \o <<" ">>}

\* The submissions: one field takes each of its values, the other two hold a
\* value that the schema accepts.
SchemaInputs ==
    {Submission(<<n>>, <<EMAIL_OK>>, <<MESSAGE_OK>>) : n \in SchemaNames}
        \cup {Submission(<<NAME_OK>>, <<e>>, <<MESSAGE_OK>>) : e \in SchemaEmails}
        \cup {Submission(<<NAME_OK>>, <<EMAIL_OK>>, <<m>>) : m \in SchemaMessages}

\* The submission has arrived and has not yet been validated.
SchemaInit ==
    StoresInit /\ nodeEnv = "production" /\ arg \in {<<x>> : x \in SchemaInputs}

\* contactFormSchema.safeParse(validationData): result keeps what it returns.
Parse ==
    /\ arg # <<>>
    /\ result = <<>>
    /\ result' = <<safeParse(arg[1].name, arg[1].email, arg[1].message)>>
    /\ UNCHANGED <<now, throttleVars, tokenVars, routeVars, concVars, arg,
                   lastIndex>>

SchemaNext == Parse

SpecSchema == SchemaInit /\ [][SchemaNext]_vars

\* The validation has reported an issue of the field.
Rejects(field) ==
    /\ result # <<>>
    /\ ~result[1].success
    /\ \E i \in 1 .. Len(result[1].errors) : result[1].errors[i].field = field

\* C29: the schema measures the length of name and message after trimming: a
\* name is accepted only if its trimmed length is from 2 to 100 and a message
\* only if its trimmed length is from 10 to 1000, padding with whitespace
\* included.
C29_LengthAfterTrimming ==
    result # <<>> =>
        /\ ~Rejects("name") =>
               Len(Trim(arg[1].name[1])) \in NAME_MIN .. NAME_MAX
        /\ ~Rejects("message") =>
               Len(Trim(arg[1].message[1])) \in MESSAGE_MIN .. MESSAGE_MAX

\* C30: the schema validation reports an issue of the email field for every
\* address with a '+' or with two consecutive dots in it and for every
\* address of fewer than 5 or more than 255 characters.
C30_StrictEmailPolicy ==
    result # <<>> =>
        LET email == arg[1].email[1] IN
        ( \/ Includes(email, <<"+">>)
          \/ Includes(email, <<".", ".">>)
          \/ Len(email) < EMAIL_MIN
          \/ Len(email) > EMAIL_MAX ) => Rejects("email")

\* ========================================================== pattern calls

\* The inputs of the calls: every concatenation of at most two of a few
\* fragments, with and without a match of a pattern.
PatternFragments ==
    { JAVASCRIPT \o <<":">>, <<"o", "n", "x", "=">>, <<"&", "#", "1", ";">>,
      <<"<">> \o INPUT \o <<">">>, <<"a">> }

PatternInputs ==
    {x \o y : x \in PatternFragments \cup {<<>>}, y \in PatternFragments \cup {<<>>}}

\* A call containsDangerousPatterns(input).
CallContains ==
    \E input \in PatternInputs :
        LET r == containsDangerousPatterns(input, lastIndex) IN
        /\ arg' = <<input>>
        /\ result' = <<[fn |-> "containsDangerousPatterns", value |-> r.value]>>
        /\ lastIndex' = r.lastIndex
        /\ UNCHANGED <<now, throttleVars, tokenVars, routeVars, concVars>>

\* A call sanitizeInput(input): every replace leaves lastIndex at 0.
CallSanitize ==
    \E input \in PatternInputs :
        /\ arg' = <<input>>
        /\ result' = <<[fn |-> "sanitizeInput", value |-> sanitizeInput(input)]>>
        /\ lastIndex' = NoLastIndex
        /\ UNCHANGED <<now, throttleVars, tokenVars, routeVars, concVars>>

PatternNext == CallContains \/ CallSanitize

SpecPatterns == Init /\ [][PatternNext]_vars

\* C39: containsDangerousPatterns is history-independent: whatever calls of
\* containsDangerousPatterns and sanitizeInput came before, it returns for
\* an input what it returns with pattern objects that were never used.
C39_HistoryIndependent ==
    (result # <<>> /\ result[1].fn = "containsDangerousPatterns") =>
        result[1].value = ContainsDangerousPatterns(arg[1])

ThrottleNext == Check \/ Tick

SpecThrottle == Init /\ [][ThrottleNext]_vars

TokenNext == Generate \/ Validate \/ Tick

SpecToken == Init /\ [][TokenNext]_vars

\* getCSRFInput(sessionId) called by a page of the server, at most MaxIssued
\* times.
MaxIssued == 1

getCSRFInput ==
    /\ Cardinality(issuedEver) < MaxIssued
    /\ Generate

\* The route handlers and the pages of the server.
RouteNext == GET \/ POST \/ getCSRFInput \/ Tick

SpecRoute == Init /\ [][RouteNext]_vars

\* The POST handlers running concurrently, and the pages of the server.
ConcurrentNext == ConcurrentPOST \/ getCSRFInput \/ Tick

SpecConcurrent == Init /\ [][ConcurrentNext]_vars

Next == Check \/ Generate \/ Validate \/ GET \/ POST \/ Tick

Spec == Init /\ [][Next]_vars

=============================================================================
